---------------------------- MODULE Spec2Model ----------------------------
(***************************************************************************)
(* State-machine model of the Eastmoney report pipeline of MediaCrawler:   *)
(* paginated crawl, attachment download, the sqlite report store, the      *)
(* Feishu notification, the timed reply listener and the PDF retention     *)
(* step (EastmoneyPdfStorage.move_to_target).                              *)
(*                                                                         *)
(* Time stamps are counted in days.  A file path is the pair               *)
(* <<directory, infocode>>; the empty path "" of the code is <<>>.         *)
(***************************************************************************)
EXTENDS Integers, Sequences, FiniteSets, TLC

VARIABLES
    now,            \* wall clock read by get_current_timestamp / time.time
    db,             \* table eastmoney_report: a sequence of rows
    holding,        \* PDF_SAVE_DIR: infocode -> content of <infocode>.pdf (0: no file)
    target,         \* TARGET_PDF_DIR: infocode -> content of <infocode>.pdf (0: no file)
    saveDirExists,  \* whether PDF_SAVE_DIR has been created
    pc,             \* position of the orchestrating coroutine
    mode,           \* which entry point drives the cycle: "scheduled" | "manual"
    cycle,          \* number of crawl cycles started
    pageNo,         \* page_no of EastmoneyCrawler.start
    nAll,           \* len(all_reports) of EastmoneyCrawler.start
    page,           \* reports: the page being processed
    idx,            \* position of the for loop in the page
    log,            \* per cycle: the records processed and what each download gave
    last,           \* the last call of _process_report in detail
    newReports,     \* new_reports returned by EastmoneyCrawler.start
    res,            \* the last call of move_to_target of the cycle: inputs and outcome,
                    \* and the callers of move_to_target in the cycle
    listener,       \* how the last run of timed_listener.py in the cycle ended
    sent,           \* what became of send_report_list in the cycle
    crawlEnd,       \* why the while loop of EastmoneyCrawler.start ended
    reply,          \* selection_text: a reply text of the reviewer
    offered,        \* the infocodes of the reports a reply is read against
    parsed,         \* what a reply function made of reply and offered
    call,           \* the arguments of a call of a single function
    ret,            \* what that call returned or raised
    lsn,            \* the locals of listen_and_process in its wait loop
    chat            \* the messages of the reviewer's chat, oldest first

vars == <<now, db, holding, target, saveDirExists, pc, mode, cycle, pageNo,
          nAll, page, idx, log, last, newReports, res, listener, sent, crawlEnd,
          reply, offered, parsed, call, ret, lsn, chat>>

replyVars == <<reply, offered, parsed>>

unitVars == <<call, ret, lsn, chat>>

programVars == <<now, db, holding, target, saveDirExists, pc, mode, cycle, pageNo,
                 nAll, page, idx, log, last, newReports, res, listener, sent,
                 crawlEnd>>

---------------------------------------------------------------------------
(* Bounds of the model *)

MaxTime == 1
MaxCycles == 2
MaxPages == 1
MaxPageLen == 2

(* Program constants *)

PAGE_SIZE == 50
DEFAULT_DAYS == 7
MAX_RETRIES == 3

\* max_notes of EastmoneyCrawler.start
max_notes == PAGE_SIZE * 5

Ids == {"a", "b"}
AttachTypes == {"0", "1"}
Records == [infoCode : Ids, attachType : AttachTypes]

NoPath == <<>>
PDF_SAVE_DIR == "save"
TARGET_PDF_DIR == "target"

---------------------------------------------------------------------------
(* Generic helpers *)

Range(s) == {s[i] : i \in DOMAIN s}

Get(d, k, default) == IF k \in DOMAIN d THEN d[k] ELSE default

SeqsUpTo(S, n) == UNION {[1..k -> S] : k \in 1..n}

Perms(S) == {p \in [1..Cardinality(S) -> S] : Range(p) = S}

\* The pages the listing may answer with: up to MaxPageLen records, each report once.
Pages == {p \in SeqsUpTo(Records, MaxPageLen) :
            \A j, k \in DOMAIN p : j # k => p[j].infoCode # p[k].infoCode}

---------------------------------------------------------------------------
(* EastmoneySqliteStoreImplement *)

\* A lookup that never finds the row.
report_is_exist_never(table, infocode) == FALSE

report_is_exist(table, infocode) ==
    \E i \in DOMAIN table : table[i].infocode = infocode

\* tools.time_util.get_current_timestamp at clock t: the time of the call, in the
\* unit of the clock that get_new_reports_for_feishu reads.
get_current_timestamp(t) == t

\* An insert that stores every new row as pending, whatever status is supplied.
add_report_pending(table, item, t) ==
    Append(table,
           [infocode        |-> item.infocode,
            report_title    |-> Get(item, "report_title", ""),
            pdf_size        |-> Get(item, "pdf_size", 0),
            attach_type     |-> Get(item, "attach_type", ""),
            pdf_path        |-> Get(item, "pdf_path", NoPath),
            download_status |-> "pending",
            error_message   |-> Get(item, "error_message", ""),
            create_time     |-> get_current_timestamp(t),
            update_time     |-> get_current_timestamp(t)])

add_report(table, item, t) ==
    Append(table,
           [infocode        |-> item.infocode,
            report_title    |-> Get(item, "report_title", ""),
            pdf_size        |-> Get(item, "pdf_size", 0),
            attach_type     |-> Get(item, "attach_type", ""),
            pdf_path        |-> Get(item, "pdf_path", NoPath),
            download_status |-> Get(item, "download_status", "pending"),
            error_message   |-> Get(item, "error_message", ""),
            create_time     |-> get_current_timestamp(t),
            update_time     |-> get_current_timestamp(t)])

\* An update that writes the row anew from the item, as add_report does.
update_report_replaces_row(table, item, t) ==
    [i \in DOMAIN table |->
        IF table[i].infocode = item.infocode
        THEN [infocode        |-> item.infocode,
              report_title    |-> Get(item, "report_title", ""),
              pdf_size        |-> Get(item, "pdf_size", 0),
              attach_type     |-> Get(item, "attach_type", ""),
              pdf_path        |-> Get(item, "pdf_path", NoPath),
              download_status |-> Get(item, "download_status", "pending"),
              error_message   |-> Get(item, "error_message", ""),
              create_time     |-> table[i].create_time,
              update_time     |-> get_current_timestamp(t)]
        ELSE table[i]]

update_report(table, item, t) ==
    [i \in DOMAIN table |->
        IF table[i].infocode = item.infocode
        THEN [table[i] EXCEPT
                !.update_time     = get_current_timestamp(t),
                !.pdf_path        = Get(item, "pdf_path", @),
                !.download_status = Get(item, "download_status", @),
                !.error_message   = Get(item, "error_message", @),
                !.pdf_size        = Get(item, "pdf_size", @)]
        ELSE table[i]]

store_content(table, item, t) ==
    IF item.infocode = "" THEN table
    ELSE IF report_is_exist(table, item.infocode)
         THEN update_report(table, item, t)
         ELSE add_report(table, item, t)

update_pdf_status(table, infocode, status, pdf_path, error_message, t) ==
    [i \in DOMAIN table |->
        IF table[i].infocode = infocode
        THEN [table[i] EXCEPT
                !.download_status = status,
                !.update_time     = get_current_timestamp(t),
                !.pdf_path        = IF pdf_path # NoPath THEN pdf_path ELSE @,
                !.error_message   = IF error_message # "" THEN error_message ELSE @]
        ELSE table[i]]

RowsOf(table, infocode) == {i \in DOMAIN table : table[i].infocode = infocode}

RowOf(table, infocode) == table[CHOOSE i \in RowsOf(table, infocode) : TRUE]

---------------------------------------------------------------------------
(* EastmoneyClient.download_pdf under @retry(stop_after_attempt(MAX_RETRIES)) *)

\* What the attachment host does with one attempt:
\*   "ok"        HEAD answered, GET answers 2xx with a body
\*   "empty"     HEAD answered, GET answers 2xx with an empty body
\*   "404"       HEAD answered, GET answers 404
\*   "error"     HEAD answered, GET fails otherwise (status, connection, timeout)
\*   "head_err"  the HEAD request itself fails on the connection: no GET is sent
Responses == {"ok", "empty", "404", "error", "head_err"}

\* A function body that treats 404 like every other status error.
download_attempt_404_raises(r) ==
    CASE r = "ok"       -> [exc |-> "", content |-> "bytes", gets |-> 1]
      [] r = "empty"    -> [exc |-> "", content |-> "empty", gets |-> 1]
      [] r = "404"      -> [exc |-> "PDFDownloadError", content |-> "None", gets |-> 1]
      [] r = "error"    -> [exc |-> "PDFDownloadError", content |-> "None", gets |-> 1]
      [] r = "head_err" -> [exc |-> "PDFDownloadError", content |-> "None", gets |-> 0]

\* One execution of the function body: what it returns or raises, and the GETs sent.
download_attempt(r) ==
    CASE r = "ok"       -> [exc |-> "", content |-> "bytes", gets |-> 1]
      [] r = "empty"    -> [exc |-> "", content |-> "empty", gets |-> 1]
      [] r = "404"      -> [exc |-> "", content |-> "None", gets |-> 1]
      [] r = "error"    -> [exc |-> "PDFDownloadError", content |-> "None", gets |-> 1]
      [] r = "head_err" -> [exc |-> "PDFDownloadError", content |-> "None", gets |-> 0]

\* tenacity: an attempt that returns ends the call; an attempt that raises is
\* repeated until stop_after_attempt, and then RetryError is raised (reraise is off).
RECURSIVE retry_download(_, _, _)
retry_download(resp, k, gets) ==
    LET a == download_attempt(resp[k]) IN
    IF a.exc = ""
    THEN [exc |-> "", content |-> a.content, gets |-> gets + a.gets, attempts |-> k]
    ELSE IF k >= MAX_RETRIES
         THEN [exc |-> "RetryError", content |-> "None", gets |-> gets + a.gets,
               attempts |-> k]
         ELSE retry_download(resp, k + 1, gets + a.gets)

\* The answers of the host to the attempts of one call.  The answers after the
\* first one that ends the call are never asked for; they are taken to be "ok".
Scripts ==
    {r \in [1..MAX_RETRIES -> Responses] :
        \A k \in 1..MAX_RETRIES :
           download_attempt(r[k]).exc = "" =>
              \A j \in (k + 1)..MAX_RETRIES : r[j] = "ok"}

\* The call as _process_report sees it, with what the host saw of it:
\*   saw404:   the host answered a GET with 404
\*   gets404:  the GETs sent in the attempt the host first answered with 404
\*   after404: the attempts made after that answer
download_pdf(resp) ==
    LET d == retry_download(resp, 1, 0)
        first404 == {k \in 1..d.attempts :
                       resp[k] = "404" /\ \A j \in 1..(k - 1) : resp[j] # "404"}
    IN [exc |-> d.exc, content |-> d.content, gets |-> d.gets, attempts |-> d.attempts,
        saw404 |-> first404 # {},
        gets404 |-> IF first404 = {} THEN 0
                    ELSE download_attempt(resp[CHOOSE k \in first404 : TRUE]).gets,
        after404 |-> IF first404 = {} THEN 0
                     ELSE d.attempts - (CHOOSE k \in first404 : TRUE)]

---------------------------------------------------------------------------
(* EastmoneyPdfStorage *)

\* A store_pdf that returns no path.
store_pdf_path_none(infocode, content) == NoPath

\* store_pdf: writes PDF_SAVE_DIR/<infocode>.pdf and returns its path.
store_pdf_path(infocode, content) ==
    IF content \in {"empty", "None"} \/ infocode = "" THEN NoPath
    ELSE <<PDF_SAVE_DIR, infocode>>

HeldIds(h) == {i \in DOMAIN h : h[i] # 0}

\* A loop body that moves every held file to the target directory.
move_one_keeps_all(st, infocode, infocodes, failing) ==
    [st EXCEPT !.target[infocode] = st.holding[infocode],
               !.holding[infocode] = 0,
               !.result = @ \cup {infocode}]

\* A loop body that copies a selected file and leaves it in the holding directory.
move_one_copies(st, infocode, infocodes, failing) ==
    IF infocode \in infocodes
    THEN [st EXCEPT !.target[infocode] = st.holding[infocode],
                    !.result = @ \cup {infocode}]
    ELSE [st EXCEPT !.holding[infocode] = 0]

\* The body of the for loop of move_to_target for one file.
\*   failing: the files on which os.rename / os.remove raises an OSError other
\*            than FileExistsError.
\* A selected file replaces a target file of its name: os.rename does so itself
\* (POSIX), or it raises FileExistsError and the except branch removes the target
\* file and renames again.  An OSError of os.rename leaves the loop and the call;
\* an OSError of os.remove is logged and the loop goes on.
move_one(st, infocode, infocodes, failing) ==
    IF infocode \in infocodes
    THEN IF infocode \in failing
         THEN [st EXCEPT !.raised = TRUE]
         ELSE [st EXCEPT !.target[infocode] = st.holding[infocode],
                         !.holding[infocode] = 0,
                         !.result = @ \cup {infocode}]
    ELSE IF infocode \in failing
         THEN [st EXCEPT !.undeleted = @ \cup {infocode}]
         ELSE [st EXCEPT !.holding[infocode] = 0]

RECURSIVE move_files(_, _, _, _, _)
move_files(st, all_files, k, infocodes, failing) ==
    IF k > Len(all_files) \/ st.raised THEN st
    ELSE move_files(move_one(st, all_files[k], infocodes, failing),
                    all_files, k + 1, infocodes, failing)

\* move_to_target(infocodes); all_files is os.listdir's order of the held files.
\* os.listdir raises when PDF_SAVE_DIR does not exist.
move_to_target(h, t, dirExists, infocodes, all_files, failing) ==
    LET st0 == [holding |-> h, target |-> t, result |-> {}, raised |-> FALSE,
                undeleted |-> {}]
    IN IF ~dirExists THEN [st0 EXCEPT !.raised = TRUE]
       ELSE move_files(st0, all_files, 1, infocodes, failing)

---------------------------------------------------------------------------
(* store/eastmoney/__init__.py *)

\* A WHERE clause without the condition on download_status.
Qualifies_any_status(row, t, days) ==
    row.create_time >= t - days

Qualifies(row, t, days) ==
    row.create_time >= t - days /\ row.download_status = "completed"

\* get_new_reports_for_feishu: the completed rows created in the last `days` days,
\* ORDER BY create_time DESC.  SQL leaves the order of equal keys open, so this is
\* the set of the orders the query may answer with (as infocodes).
recent_completed(table, t, days) ==
    LET rows == {i \in DOMAIN table : Qualifies(table[i], t, days)}
    IN {[k \in 1..Cardinality(rows) |-> table[p[k]].infocode] :
          p \in {q \in Perms(rows) :
                   \A j, k \in DOMAIN q :
                      j < k => table[q[j]].create_time >= table[q[k]].create_time}}

---------------------------------------------------------------------------
(* EastmoneyCrawler._process_report *)

StatusOf(table, infocode) ==
    IF report_is_exist(table, infocode)
    THEN table[CHOOSE i \in DOMAIN table : table[i].infocode = infocode].download_status
    ELSE "absent"

\* A test that takes every record to have an identifier.
has_info_code_always(report_data) == TRUE

\* `if not info_code` of _process_report, negated: the record has an identifier.
has_info_code(report_data) == report_data.infoCode # ""

\* One call of _process_report for the listing record rec; resp is what the
\* attachment host answers to the successive attempts, t the clock, cyc the content
\* written to the file.  exc is the exception that leaves the call ("" for none).
process_report(table, h, dirExists, rec, resp, t, cyc) ==
    LET info_code == rec.infoCode
        db_item   == [infocode |-> info_code,
                      report_title |-> Get(rec, "title", ""),
                      pdf_size |-> Get(rec, "attachSize", 0),
                      attach_type |-> rec.attachType]
        prior     == StatusOf(table, info_code)
        same      == [db |-> table, holding |-> h, saveDirExists |-> dirExists,
                      exc |-> "",
                      entry |-> [rec |-> rec, prior |-> prior, dl |-> "none", saw404 |-> FALSE,
                                 gets404 |-> 0, after404 |-> 0, written |-> FALSE]]
    IN IF ~has_info_code(rec) THEN same
       ELSE IF rec.attachType # "0"
       THEN [same EXCEPT
               !.db = store_content(table,
                        db_item @@ [download_status |-> "no_pdf",
                                    error_message |-> "No PDF attachment"], t),
               !.entry.written = TRUE]
       ELSE LET d == download_pdf(resp) IN
            IF d.exc = "PDFDownloadError"
            THEN [same EXCEPT
                    !.db = store_content(table,
                             db_item @@ [download_status |-> "failed",
                                         error_message |-> "PDFDownloadError"], t),
                    !.entry.dl = "PDFDownloadError", !.entry.saw404 = d.saw404,
                    !.entry.gets404 = d.gets404, !.entry.after404 = d.after404,
                    !.entry.written = TRUE]
            ELSE IF d.exc # ""
            THEN [same EXCEPT !.exc = d.exc,
                              !.entry.dl = d.exc, !.entry.saw404 = d.saw404,
                    !.entry.gets404 = d.gets404, !.entry.after404 = d.after404]
            ELSE IF d.content = "bytes"
            THEN [same EXCEPT
                    !.holding[info_code] = cyc,
                    !.saveDirExists = TRUE,
                    !.db = store_content(table,
                             db_item @@ [pdf_path |-> store_pdf_path(info_code, d.content),
                                         download_status |-> "completed"], t),
                    !.entry.dl = "bytes", !.entry.saw404 = d.saw404,
                    !.entry.gets404 = d.gets404, !.entry.after404 = d.after404,
                    !.entry.written = TRUE]
            ELSE [same EXCEPT
                    !.db = store_content(table,
                             db_item @@ [download_status |-> "failed",
                                         error_message |-> "PDF download returned None"], t),
                    !.entry.dl = d.content, !.entry.saw404 = d.saw404,
                    !.entry.gets404 = d.gets404, !.entry.after404 = d.after404,
                    !.entry.written = TRUE]

---------------------------------------------------------------------------
(* Reply texts.  A text is a sequence of characters; a character is a one-letter  *)
(* string, the full-width comma is "fw," and the CJK characters of the keywords   *)
(* are written by their pinyin.                                                    *)

Digits == {"0", "1", "2", "3", "5"}

DigitVal(c) ==
    CASE c = "0" -> 0 [] c = "1" -> 1 [] c = "2" -> 2 [] c = "3" -> 3 [] c = "5" -> 5

LowerChar(c) == CASE c = "A" -> "a" [] c = "L" -> "l" [] OTHER -> c

lower(s) == [i \in DOMAIN s |-> LowerChar(s[i])]

RECURSIVE lstrip(_)
lstrip(s) == IF s # <<>> /\ Head(s) = " " THEN lstrip(Tail(s)) ELSE s

RECURSIVE rstrip(_)
rstrip(s) == IF s # <<>> /\ s[Len(s)] = " " THEN rstrip(SubSeq(s, 1, Len(s) - 1)) ELSE s

strip(s) == rstrip(lstrip(s))

\* s.replace("，", ",")
replace_fw_comma(s) == [i \in DOMAIN s |-> IF s[i] = "fw," THEN "," ELSE s[i]]

\* s.split(",")
RECURSIVE split(_)
split(s) ==
    LET commas == {i \in DOMAIN s : s[i] = ","} IN
    IF commas = {} THEN <<s>>
    ELSE LET i == CHOOSE j \in commas : \A k \in commas : j <= k
         IN <<SubSeq(s, 1, i - 1)>> \o split(SubSeq(s, i + 1, Len(s)))

isdigit(s) == s # <<>> /\ \A i \in DOMAIN s : s[i] \in Digits

RECURSIVE int(_)
int(s) == IF s = <<>> THEN 0
          ELSE 10 * int(SubSeq(s, 1, Len(s) - 1)) + DigitVal(s[Len(s)])

T_all == <<"a", "l", "l">>
T_quanbu == <<"quan", "bu">>
T_quanbu_baoliu == <<"quan", "bu", "bao", "liu">>
T_delete == <<"d", "e", "l", "e", "t", "e">>
T_delete_all == <<"d", "e", "l", "e", "t", "e", " ", "a", "l", "l">>
T_quanbu_shanchu == <<"quan", "bu", "shan", "chu">>
T_all_delete == <<"a", "l", "l", " ", "d", "e", "l", "e", "t", "e">>
T_cancel == <<"c", "a", "n", "c", "e", "l">>
T_quxiao == <<"qu", "xiao">>

\* The reply texts the reviewer is taken to write.
Texts == {T_all, <<" ", "A", "L", "L">>, T_quanbu, T_delete, T_quanbu_shanchu,
          <<"1">>, <<"2">>, <<"3">>, <<"0">>, <<"1", ",", "2">>, <<"2", "fw,", "1">>,
          <<"1", ",", "1">>, <<" ", "1", " ", ",", "x">>, <<"1", " ", "2">>,
          <<"x">>, <<>>,
          <<"1", ",", "2", ",", "5">>, <<"1", ",", "1", ",", "2">>, T_cancel}

---------------------------------------------------------------------------
(* process_selection.py *)

\* selected_indices of process_selection for the text against n listed reports.
cli_selected_indices(selection_text, n) ==
    LET text == lower(strip(selection_text)) IN
    IF text \in {T_all, T_quanbu, T_quanbu_baoliu}
    THEN [k \in 1..n |-> k]
    ELSE IF text \in {T_delete, T_quanbu_shanchu, T_delete_all}
    THEN <<>>
    ELSE LET parts == split(replace_fw_comma(text))
             Good(part) == /\ isdigit(strip(part))
                           /\ 1 <= int(strip(part))
                           /\ int(strip(part)) <= n
             kept == SelectSeq(parts, Good)
         IN [k \in DOMAIN kept |-> int(strip(kept[k]))]

\* The infocodes process_selection hands to move_selected_pdfs, and whether it
\* gets that far: it returns early when no report is listed or the prompt is not
\* answered with yes.
cli_selection(selection_text, reports, confirm) ==
    LET selected_indices == cli_selected_indices(selection_text, Len(reports))
    IN [proceed |-> reports # <<>> /\ confirm,
        selected_infocodes |->
            [k \in DOMAIN selected_indices |-> reports[selected_indices[k]]],
        infocodes |-> {reports[selected_indices[k]] : k \in DOMAIN selected_indices}]

---------------------------------------------------------------------------
(* timed_listener.py: the reply functions *)

\* re.findall(r'\d+', s): the maximal runs of digits of s, from left to right.
RECURSIVE findall_digits(_)
findall_digits(s) ==
    IF s = <<>> THEN <<>>
    ELSE IF Head(s) \notin Digits THEN findall_digits(Tail(s))
    ELSE LET stops == {i \in DOMAIN s : s[i] \notin Digits}
             n == IF stops = {} THEN Len(s)
                  ELSE (CHOOSE i \in stops : \A j \in stops : i <= j) - 1
         IN <<SubSeq(s, 1, n)>> \o findall_digits(SubSeq(s, n + 1, Len(s)))

\* TimedFeishuListener.parse_user_selection: "all", "delete_all", a list of
\* numbers, or None.
parse_user_selection(selection_text) ==
    LET text == lower(strip(selection_text))
        numbers == findall_digits(text)
    IN IF text \in {T_quanbu_baoliu, T_all, T_quanbu}
       THEN [kind |-> "all", numbers |-> <<>>]
       ELSE IF text \in {T_quanbu_shanchu, T_delete, T_delete_all}
       THEN [kind |-> "delete_all", numbers |-> <<>>]
       ELSE IF numbers # <<>>
       THEN [kind |-> "list", numbers |-> [k \in DOMAIN numbers |-> int(numbers[k])]]
       ELSE [kind |-> "None", numbers |-> <<>>]

\* process_and_notify: the infocodes the parsed selection names in reports.
listener_selected_infocodes(selection, reports) ==
    IF selection.kind = "all" THEN reports
    ELSE IF selection.kind = "delete_all" THEN <<>>
    ELSE LET InRange(number) == 1 <= number /\ number <= Len(reports)
             kept == SelectSeq(selection.numbers, InRange)
         IN [k \in DOMAIN kept |-> reports[kept[k]]]

---------------------------------------------------------------------------
(* feishu/eastmoney_bot.py *)

\* The number of reports send_report_list puts on the card.
CARD_LIMIT == 5

\* The reports the card of send_report_list lists, numbered from 1.
card_reports(reports) ==
    SubSeq(reports, 1, IF Len(reports) < CARD_LIMIT THEN Len(reports) ELSE CARD_LIMIT)

\* EastmoneyFeishuBot.process_user_selection
process_user_selection(selection_text, all_infocodes) ==
    LET text == lower(strip(selection_text)) IN
    IF text \in {T_quanbu_baoliu, T_all}
    THEN all_infocodes
    ELSE IF text \in {T_quanbu_shanchu, T_all_delete, T_delete_all}
    THEN <<>>
    ELSE IF text \in {T_quxiao, T_cancel}
    THEN <<>>
    ELSE LET parts == split(replace_fw_comma(text))
             Good(part) == /\ isdigit(strip(part))
                           /\ 0 <= int(strip(part)) - 1
                           /\ int(strip(part)) - 1 < Len(all_infocodes)
             kept == SelectSeq(parts, Good)
         IN [k \in DOMAIN kept |-> all_infocodes[int(strip(kept[k]))]]

\* send_report_list: True only when the chat id is configured, the MCP module can
\* be imported and the call of the MCP tool does not raise.
send_report_list(configured, mcp_available, call_ok) ==
    configured /\ mcp_available /\ call_ok

\* send_and_notify_reports: None (none = TRUE) when the list was not sent, and
\* otherwise at once the empty list.
send_and_notify_reports(configured, mcp_available, call_ok) ==
    IF ~send_report_list(configured, mcp_available, call_ok)
    THEN [none |-> TRUE, infocodes |-> {}]
    ELSE [none |-> FALSE, infocodes |-> {}]

---------------------------------------------------------------------------
(* Configuration switches of config/eastmoney_config.py *)

SEND_LIST_TO_FEISHU == TRUE
DELETE_UNSELECTED == TRUE

\* A timeout path that hands every report to move_to_target.
TimeoutSelection_everything == Ids

\* The selection every timeout path hands to move_to_target.
TimeoutSelection == {}

NoCall == [rec |-> [infoCode |-> "", attachType |-> ""], prior |-> "absent",
           dl |-> "none", saw404 |-> FALSE, gets404 |-> 0, after404 |-> 0,
           written |-> FALSE]

\* No single function has been called, and no listener waits.
NoUnit == [op |-> "none"]

\* No reply function has been applied.
NoParse == [by |-> "none", none |-> FALSE, selected |-> <<>>]

NoRes == [via |-> "none", pre_h |-> [i \in Ids |-> 0], pre_t |-> [i \in Ids |-> 0],
          sel |-> {}, raised |-> FALSE, result |-> {}, undeleted |-> {}, callers |-> {},
          again |-> FALSE]

---------------------------------------------------------------------------
InitProgram ==
    /\ now = 0
    /\ db = <<>>
    /\ holding = [i \in Ids |-> 0]
    /\ target = [i \in Ids |-> 0]
    /\ saveDirExists = FALSE
    /\ pc = "idle"
    /\ mode = "manual"
    /\ cycle = 0
    /\ pageNo = 0
    /\ nAll = 0
    /\ page = <<>>
    /\ idx = 0
    /\ log = <<>>
    /\ last = NoCall
    /\ newReports = <<>>
    /\ res = NoRes
    /\ listener = "none"
    /\ sent = "none"
    /\ crawlEnd = ""

InitUnit ==
    /\ call = NoUnit
    /\ ret = NoUnit
    /\ lsn = NoUnit
    /\ chat = <<>>

Init ==
    /\ InitProgram
    /\ reply = <<>>
    /\ offered = <<>>
    /\ parsed = NoParse
    /\ InitUnit

\* The clock advances.
Tick ==
    /\ now < MaxTime
    /\ now' = now + 1
    /\ UNCHANGED <<db, holding, target, saveDirExists, pc, mode, cycle, pageNo,
                   nAll, page, idx, log, last, newReports, res, listener, sent,
                   crawlEnd>>
    /\ UNCHANGED <<replyVars, unitVars>>

\* scheduled_crawl_job is triggered, or main_eastmoney.manual_crawl is run:
\* EastmoneyCrawler.start begins with page 1.
StartCycleIn(Modes) ==
    /\ pc = "idle"
    /\ cycle < MaxCycles
    /\ \E m \in Modes : mode' = m
    /\ cycle' = cycle + 1
    /\ pageNo' = 1
    /\ nAll' = 0
    /\ page' = <<>>
    /\ idx' = 0
    /\ log' = <<>>
    /\ last' = NoCall
    /\ newReports' = <<>>
    /\ res' = NoRes
    /\ listener' = "none"
    /\ sent' = "none"
    /\ crawlEnd' = ""
    /\ pc' = "fetch"
    /\ UNCHANGED <<now, db, holding, target, saveDirExists>>
    /\ UNCHANGED <<replyVars, unitVars>>

\* A loop that goes on to the next page when fetch_report_list raises.
FetchPageIn_skips_failed_page(Listing, Limit) ==
    /\ pc = "fetch"
    /\ \/ \E reports \in Listing :
             /\ pageNo <= Limit
             /\ page' = reports
             /\ nAll' = nAll + Len(reports)
             /\ idx' = 1
             /\ pc' = "process"
             /\ UNCHANGED <<crawlEnd, pageNo>>
       \/ /\ page' = <<>>
          /\ UNCHANGED <<nAll, idx, pageNo>>
          /\ pc' = "crawled"
          /\ crawlEnd' = "empty"
       \/ /\ pageNo <= Limit
          /\ UNCHANGED <<page, nAll, idx>>
          /\ pageNo' = pageNo + 1
          /\ pc' = "fetch"
          /\ crawlEnd' = "fetch_error"
    /\ UNCHANGED <<now, db, holding, target, saveDirExists, mode, cycle,
                   log, last, newReports, res, listener, sent>>
    /\ UNCHANGED <<replyVars, unitVars>>

\* One iteration of the while loop of start up to the for loop: fetch_report_list
\* answers with a page out of Listing (up to page Limit), or it answers with no
\* records, or it raises.
FetchPageIn(Listing, Limit) ==
    /\ pc = "fetch"
    /\ \/ \E reports \in Listing :
             /\ pageNo <= Limit
             /\ page' = reports
             /\ nAll' = nAll + Len(reports)
             /\ idx' = 1
             /\ pc' = "process"
             /\ UNCHANGED crawlEnd
       \/ /\ page' = <<>>
          /\ UNCHANGED <<nAll, idx>>
          /\ pc' = "crawled"
          /\ crawlEnd' = "empty"
       \/ /\ UNCHANGED <<page, nAll, idx>>
          /\ pc' = "crawled"
          /\ crawlEnd' = "fetch_error"
    /\ UNCHANGED <<now, db, holding, target, saveDirExists, mode, cycle, pageNo,
                   log, last, newReports, res, listener, sent>>
    /\ UNCHANGED <<replyVars, unitVars>>

FetchPage == FetchPageIn(Pages, MaxPages)

\* The for loop calls _process_report for the next record of the page; after the
\* last record page_no is incremented and the while condition is evaluated.  An
\* exception leaving _process_report ends the while loop.
ProcessReportIn(Answers) ==
    /\ pc = "process"
    /\ \E resp \in Answers :
          LET r == process_report(db, holding, saveDirExists, page[idx], resp, now, cycle)
          IN /\ db' = r.db
             /\ holding' = r.holding
             /\ saveDirExists' = r.saveDirExists
             /\ log' = Append(log, [rec |-> r.entry.rec, dl |-> r.entry.dl,
                                     page_no |-> pageNo])
             /\ last' = r.entry
             /\ IF r.exc # ""
                THEN /\ pc' = "crawled"
                     /\ crawlEnd' = "exception"
                     /\ UNCHANGED <<idx, pageNo>>
                ELSE IF idx < Len(page)
                THEN /\ idx' = idx + 1
                     /\ UNCHANGED <<pc, pageNo, crawlEnd>>
                ELSE /\ idx' = idx
                     /\ pageNo' = pageNo + 1
                     /\ pc' = IF nAll < max_notes THEN "fetch" ELSE "crawled"
                     /\ crawlEnd' = IF nAll < max_notes THEN crawlEnd ELSE "max_notes"
    /\ UNCHANGED <<now, target, mode, nAll, page, cycle, newReports, res, listener,
                   sent>>
    /\ UNCHANGED <<replyVars, unitVars>>

\* The end of start: get_new_reports_for_feishu(days).  The locals of start, and
\* the record of what it did, end with it.
FinishCrawl ==
    /\ pc = "crawled"
    /\ \E rs \in recent_completed(db, now, DEFAULT_DAYS) : newReports' = rs
    /\ pc' = "notify"
    /\ pageNo' = 0
    /\ nAll' = 0
    /\ page' = <<>>
    /\ idx' = 0
    /\ log' = <<>>
    /\ last' = NoCall
    /\ crawlEnd' = ""
    /\ UNCHANGED <<now, db, holding, target, saveDirExists, mode, cycle, res, listener,
                   sent>>
    /\ UNCHANGED <<replyVars, unitVars>>

\* One call of move_to_target in the environment env = <<all_files, failing>>,
\* recorded in res.  again: the call repeats the selection of the call before it
\* in the cycle, and that call returned with every file moved or deleted.
Resolve(via, infocodes, env) ==
    LET m == move_to_target(holding, target, saveDirExists, infocodes,
                            env[1], env[2])
    IN /\ holding' = m.holding
       /\ target' = m.target
       /\ res' = [via |-> via, pre_h |-> holding, pre_t |-> target,
                  sel |-> infocodes, raised |-> m.raised,
                  result |-> m.result, undeleted |-> m.undeleted,
                  callers |-> res.callers \cup {via},
                  again |-> /\ res.via # "none"
                            /\ ~res.raised
                            /\ res.undeleted = {}
                            /\ res.sel = infocodes]

\* The environments of a call: the order in which os.listdir lists the held
\* files, and the held files on which the file system operation fails.
FsEnvs(Failures) ==
    {e \in Perms(HeldIds(holding)) \X Failures : e[2] \subseteq HeldIds(holding)}

\* The rest of crawl_eastmoney_reports / manual_crawl: send_and_notify_reports
\* and, when it returns a selection, move_selected_pdfs.
NotifyReportsIn(Failures) ==
    /\ pc = "notify"
    /\ \E configured \in BOOLEAN, mcp_available \in BOOLEAN, call_ok \in BOOLEAN,
          env \in FsEnvs(Failures) :
          LET selected_infocodes ==
                  send_and_notify_reports(configured, mcp_available, call_ok)
          IN /\ IF /\ newReports # <<>>
                   /\ SEND_LIST_TO_FEISHU
                   /\ ~selected_infocodes.none
                   /\ (mode = "manual" => DELETE_UNSELECTED)
                THEN Resolve("sent", selected_infocodes.infocodes, env)
                ELSE UNCHANGED <<holding, target, res>>
             /\ sent' = IF newReports = <<>> \/ ~SEND_LIST_TO_FEISHU THEN "skipped"
                        ELSE IF selected_infocodes.none THEN "failed"
                        ELSE "ok"
    /\ pc' = IF mode = "scheduled" THEN "sleep" ELSE "idle"
    /\ newReports' = <<>>
    /\ UNCHANGED <<now, db, saveDirExists, mode, cycle, pageNo, nAll, page, idx,
                   log, last, listener, crawlEnd>>
    /\ UNCHANGED <<replyVars, unitVars>>

\* scheduled_crawl_job after asyncio.sleep(wait_time): move_to_target([]).
ScheduledTimeout ==
    /\ pc = "sleep"
    /\ \E env \in FsEnvs(SUBSET Ids) : Resolve("sched_timeout", TimeoutSelection, env)
    /\ pc' = "idle"
    /\ UNCHANGED <<now, db, saveDirExists, mode, cycle, pageNo, nAll, page, idx,
                   log, last, newReports, listener, sent, crawlEnd>>
    /\ UNCHANGED <<replyVars, unitVars>>

\* The reviewer runs process_selection.py with a reply text and answers its prompt.
ProcessSelectionCliIn(Replies) ==
    /\ pc \in {"idle", "sleep"}
    /\ cycle > 0
    /\ \E selection_text \in Replies, confirm \in BOOLEAN,
          reports \in recent_completed(db, now, 1), env \in FsEnvs(SUBSET Ids) :
          LET c == cli_selection(selection_text, reports, confirm)
          IN /\ c.proceed
             /\ Resolve("cli", c.infocodes, env)
    /\ UNCHANGED <<now, db, saveDirExists, pc, mode, cycle, pageNo, nAll, page, idx,
                   log, last, newReports, listener, sent, crawlEnd>>
    /\ UNCHANGED <<replyVars, unitVars>>

\* The reviewer runs timed_listener.py to answer the notification of the cycle,
\* before anything has resolved its files.  listen_and_process returns when no chat id
\* is found.  Otherwise it reaches the banner that reads time.time(): time is a
\* local name of listen_and_process (the import in the reply branch binds it), not
\* yet bound there, so the call ends with UnboundLocalError before the wait loop.
ListenerRun ==
    /\ pc \in {"idle", "sleep"}
    /\ cycle > 0
    /\ listener = "none"
    /\ res.via = "none"
    /\ \E chat_found \in BOOLEAN :
          listener' = IF chat_found THEN "UnboundLocalError" ELSE "no_chat_id"
    /\ UNCHANGED <<now, db, holding, target, saveDirExists, pc, mode, cycle, pageNo,
                   nAll, page, idx, log, last, newReports, res, sent, crawlEnd>>
    /\ UNCHANGED <<replyVars, unitVars>>

---------------------------------------------------------------------------
(* The pipeline: crawl cycles in both modes, the notification, the scheduled     *)
(* clean-up, the command line selection and the listener, with file system       *)
(* failures.  The attachment host answers at once, with the file, with 404 or    *)
(* with errors throughout, and the cycles fall on one day.                        *)

PipelineAnswers ==
    {r \in Scripts : r[1] \in {"ok", "404"} \/ \A k \in DOMAIN r : r[k] = "error"}

StartCycle == StartCycleIn({"scheduled", "manual"})

ProcessReport == ProcessReportIn(PipelineAnswers)

NotifyReports == NotifyReportsIn(SUBSET Ids)

PipelineTexts == {T_all, T_delete, <<"1">>, <<"2">>, <<"2", "fw,", "1">>, <<"x">>}

ProcessSelectionCli == ProcessSelectionCliIn(PipelineTexts)

Next ==
    \/ StartCycle
    \/ FetchPage
    \/ ProcessReport
    \/ FinishCrawl
    \/ NotifyReports
    \/ ScheduledTimeout
    \/ ProcessSelectionCli
    \/ ListenerRun

Spec == Init /\ [][Next]_vars

---------------------------------------------------------------------------
(* The store: manual crawl cycles on a running clock, with every answer of the   *)
(* attachment host and no file system failure.                                    *)

StartManual == StartCycleIn({"manual"})

ProcessAnyReport == ProcessReportIn(Scripts)

NotifyManual == NotifyReportsIn({{}})

NextStore ==
    \/ Tick
    \/ StartManual
    \/ FetchPage
    \/ ProcessAnyReport
    \/ FinishCrawl
    \/ NotifyManual

SpecStore == Init /\ [][NextStore]_vars

---------------------------------------------------------------------------
(* The crawl loop on a listing of short pages: manual cycles in which every page *)
(* holds one record of the same report and every download succeeds at once.      *)

MaxCrawlPages == 6

ShortPages == {p \in Pages : Len(p) = 1 /\ p[1].infoCode = "a"}

FetchShortPage == FetchPageIn(ShortPages, MaxCrawlPages)

ProcessOkReport == ProcessReportIn({[k \in 1..MAX_RETRIES |-> "ok"]})

NextCrawl ==
    \/ StartManual
    \/ FetchShortPage
    \/ ProcessOkReport
    \/ FinishCrawl
    \/ NotifyManual

SpecCrawl == Init /\ [][NextCrawl]_vars

---------------------------------------------------------------------------
(* The crawl loop on a listing with records that carry no infoCode: manual      *)
(* cycles whose pages hold such a record before, after or between records of    *)
(* the reports.                                                                  *)

\* A listing record with an empty infoCode (report_data.get("infoCode", "")).
BlankRecords == [infoCode : {""}, attachType : AttachTypes]

PagesWithBlank ==
    {p \in SeqsUpTo(Records \cup BlankRecords, MaxPageLen + 1) :
        /\ \E k \in DOMAIN p : p[k] \in BlankRecords
        /\ \A j, k \in DOMAIN p :
              (j # k /\ p[j] \in Records) => p[j].infoCode # p[k].infoCode}

FetchPageWithBlank == FetchPageIn(PagesWithBlank, MaxPages)

SkipAnswers == {r \in Scripts : \A j, k \in DOMAIN r : r[j] = r[k]}

ProcessListedReport == ProcessReportIn(SkipAnswers)

NextSkip ==
    \/ StartManual
    \/ FetchPageWithBlank
    \/ ProcessListedReport
    \/ FinishCrawl
    \/ NotifyManual

SpecSkip == Init /\ [][NextSkip]_vars

---------------------------------------------------------------------------
(* The reply functions: a reply text and a list of offered reports are drawn,    *)
(* and one of the functions that read a reply, or the card of the notification,  *)
(* is applied to them.                                                            *)

MaxOffered == 6

OfferIds == {"a", "b", "c", "d", "e", "f"}

\* The lists of offered reports: every order of up to three of the first three
\* reports, and the longer lists up to MaxOffered reports in one order.
Offers ==
    LET alphabet == <<"a", "b", "c", "d", "e", "f", "g", "h">>
        short == {q \in SeqsUpTo({"a", "b", "c"}, 3) :
                    \A j, k \in DOMAIN q : j # k => q[j] # q[k]}
    IN {<<>>} \cup short \cup {SubSeq(alphabet, 1, n) : n \in 4..MaxOffered}

InitReply ==
    /\ InitProgram
    /\ reply \in Texts
    /\ offered \in Offers
    /\ parsed = NoParse
    /\ InitUnit

\* EastmoneyFeishuBot.process_user_selection(reply, offered)
BotSelection ==
    /\ parsed.by = "none"
    /\ parsed' = [by |-> "process_user_selection", none |-> FALSE,
                  selected |-> process_user_selection(reply, offered)]
    /\ UNCHANGED <<reply, offered>>
    /\ UNCHANGED <<programVars, unitVars>>

\* listen_and_process on a new message of the reviewer: parse_user_selection, and
\* for a result other than None the mapping of process_and_notify.
ListenerSelection ==
    /\ parsed.by = "none"
    /\ LET selection == parse_user_selection(reply)
       IN parsed' = IF selection.kind = "None"
                    THEN [by |-> "parse_user_selection", none |-> TRUE,
                          selected |-> <<>>]
                    ELSE [by |-> "parse_user_selection", none |-> FALSE,
                          selected |-> listener_selected_infocodes(selection, offered)]
    /\ UNCHANGED <<reply, offered>>
    /\ UNCHANGED <<programVars, unitVars>>

\* process_selection(reply) with the prompt answered yes.
CliSelection ==
    /\ parsed.by = "none"
    /\ LET c == cli_selection(reply, offered, TRUE)
       IN /\ c.proceed
          /\ parsed' = [by |-> "process_selection", none |-> FALSE,
                        selected |-> c.selected_infocodes]
    /\ UNCHANGED <<reply, offered>>
    /\ UNCHANGED <<programVars, unitVars>>

\* send_report_list(offered): the numbered lines of the card.
SendCard ==
    /\ parsed.by = "none"
    /\ parsed' = [by |-> "send_report_list", none |-> FALSE,
                  selected |-> card_reports(offered)]
    /\ UNCHANGED <<reply, offered>>
    /\ UNCHANGED <<programVars, unitVars>>

NextReply ==
    \/ BotSelection
    \/ ListenerSelection
    \/ CliSelection
    \/ SendCard

SpecReply == InitReply /\ [][NextReply]_vars

---------------------------------------------------------------------------
(* The report table on its own: a table of stored reports and a clock are drawn, *)
(* and one function of the store is called on them.                               *)

MaxAge == 8

\* The ages, in days, of the stored rows.
Ages == {0, DEFAULT_DAYS, MaxAge}

StoredStatuses == {"completed", "failed", "no_pdf"}

\* The rows _process_report leaves behind for report i.
StoredRows(i) ==
    {[infocode        |-> i,
      report_title    |-> title,
      pdf_size        |-> 0,
      attach_type     |-> IF st = "no_pdf" THEN "1" ELSE "0",
      pdf_path        |-> IF st = "completed" THEN <<PDF_SAVE_DIR, i>> ELSE NoPath,
      download_status |-> st,
      error_message   |-> IF st = "completed" THEN "" ELSE "error",
      create_time     |-> MaxAge - age,
      update_time     |-> MaxAge - age] :
        title \in {"", "t1"}, st \in StoredStatuses, age \in Ages}

\* The tables: at most one row for a report.
Tables ==
    {<<>>} \cup {<<r>> : r \in StoredRows("a") \cup StoredRows("b")}
           \cup {<<r, q>> : r \in StoredRows("a"), q \in StoredRows("b")}
           \cup {<<q, r>> : r \in StoredRows("a"), q \in StoredRows("b")}

\* The content items handed to store_content: the infocode, and any of the other
\* keys.
Items ==
    LET Keys == {K \cup S : K \in SUBSET {"report_title", "pdf_size"},
                            S \in {{}, {"download_status", "pdf_path"},
                                   {"download_status", "error_message"}}}
        full(i, st) == [infocode        |-> i,
                        report_title    |-> "t2",
                        pdf_size        |-> 5,
                        download_status |-> st,
                        pdf_path        |-> <<PDF_SAVE_DIR, i>>,
                        error_message   |-> "e2"]
        item(i, K) == LET f == full(i, IF "pdf_path" \in K THEN "completed" ELSE "failed")
                      IN [k \in K \cup {"infocode"} |-> f[k]]
    IN {item(i, K) : i \in Ids, K \in Keys}

InitTable ==
    /\ now = MaxAge
    /\ db \in Tables
    /\ holding = [i \in Ids |-> 0]
    /\ target = [i \in Ids |-> 0]
    /\ saveDirExists = FALSE
    /\ pc = "idle"
    /\ mode = "manual"
    /\ cycle = 0
    /\ pageNo = 0
    /\ nAll = 0
    /\ page = <<>>
    /\ idx = 0
    /\ log = <<>>
    /\ last = NoCall
    /\ newReports = <<>>
    /\ res = NoRes
    /\ listener = "none"
    /\ sent = "none"
    /\ crawlEnd = ""
    /\ reply = <<>>
    /\ offered = <<>>
    /\ parsed = NoParse
    /\ InitUnit

StoreContent ==
    /\ call.op = "none"
    /\ \E item \in Items :
          /\ call' = [op |-> "store_content", item |-> item, table |-> db]
          /\ db' = store_content(db, item, now)
    /\ ret' = [op |-> "store_content"]
    /\ UNCHANGED <<now, holding, target, saveDirExists, pc, mode, cycle, pageNo,
                   nAll, page, idx, log, last, newReports, res, listener, sent,
                   crawlEnd, lsn, chat>>
    /\ UNCHANGED replyVars

UpdatePdfStatus ==
    /\ call.op = "none"
    /\ \E infocode \in Ids, status \in StoredStatuses,
          pdf_path \in {NoPath, <<PDF_SAVE_DIR, "x">>}, error_message \in {"", "e2"} :
          /\ call' = [op |-> "update_pdf_status",
                      item |-> LET f == [infocode        |-> infocode,
                                         download_status |-> status,
                                         pdf_path        |-> pdf_path,
                                         error_message   |-> error_message]
                               IN [k \in {"infocode", "download_status"}
                                        \cup (IF pdf_path # NoPath
                                              THEN {"pdf_path"} ELSE {})
                                        \cup (IF error_message # ""
                                              THEN {"error_message"} ELSE {})
                                     |-> f[k]],
                      table |-> db]
          /\ db' = update_pdf_status(db, infocode, status, pdf_path, error_message, now)
    /\ ret' = [op |-> "update_pdf_status"]
    /\ UNCHANGED <<now, holding, target, saveDirExists, pc, mode, cycle, pageNo,
                   nAll, page, idx, log, last, newReports, res, listener, sent,
                   crawlEnd, lsn, chat>>
    /\ UNCHANGED replyVars

GetNewReports ==
    /\ call.op = "none"
    /\ \E days \in {1, DEFAULT_DAYS} :
          /\ call' = [op |-> "get_new_reports_for_feishu", days |-> days, table |-> db]
          /\ \E rs \in recent_completed(db, now, days) :
                ret' = [op |-> "get_new_reports_for_feishu", reports |-> rs]
    /\ UNCHANGED <<now, db, holding, target, saveDirExists, pc, mode, cycle, pageNo,
                   nAll, page, idx, log, last, newReports, res, listener, sent,
                   crawlEnd, lsn, chat>>
    /\ UNCHANGED replyVars

NextTable ==
    \/ StoreContent
    \/ UpdatePdfStatus
    \/ GetNewReports

SpecTable == InitTable /\ [][NextTable]_vars

---------------------------------------------------------------------------
(* EastmoneyClient: the envelope of a listing response and the retried fetch.    *)
(* A response text is a sequence of characters, "x" for any character other      *)
(* than a brace.                                                                  *)

MaxTextLen == 5

ResponseTexts == {<<>>} \cup SeqsUpTo({"{", "}", "x"}, MaxTextLen)

\* response_text.find('{'): the first index of a "{", 0 for none.
find_brace(response_text) ==
    LET opens == {i \in DOMAIN response_text : response_text[i] = "{"}
    IN IF opens = {} THEN 0
       ELSE CHOOSE i \in opens : \A j \in opens : i <= j

\* The for loop of _parse_jsonp_response from index i on, with the depth counted
\* so far: the index at which depth returns to 0, or 0 when the text ends first.
RECURSIVE scan_depth(_, _, _)
scan_depth(response_text, i, depth) ==
    IF i > Len(response_text) THEN 0
    ELSE IF response_text[i] = "{"
         THEN scan_depth(response_text, i + 1, depth + 1)
    ELSE IF response_text[i] = "}"
         THEN IF depth - 1 = 0 THEN i
              ELSE scan_depth(response_text, i + 1, depth - 1)
    ELSE scan_depth(response_text, i + 1, depth)

\* An extraction that ends at the last "}" of the text.
parse_jsonp_response_last_brace(response_text, json_ok) ==
    LET start_idx == find_brace(response_text)
        closes == {i \in DOMAIN response_text : i > start_idx /\ response_text[i] = "}"}
        end_idx == IF closes = {} THEN 0
                   ELSE CHOOSE i \in closes : \A j \in closes : i >= j
    IN IF start_idx = 0 \/ end_idx = 0
       THEN [exc |-> "JSONPParseError", found |-> FALSE, json_str |-> <<>>]
       ELSE [exc |-> IF json_ok THEN "" ELSE "JSONPParseError",
             found |-> TRUE,
             json_str |-> SubSeq(response_text, start_idx, end_idx)]

\* _parse_jsonp_response(response_text); json_ok: whether json.loads accepts the
\* extracted text.  found and json_str are what the loop extracted.
parse_jsonp_response(response_text, json_ok) ==
    LET start_idx == find_brace(response_text)
        end_idx   == IF start_idx = 0 THEN 0
                     ELSE scan_depth(response_text, start_idx, 0)
    IN IF start_idx = 0 \/ end_idx = 0
       THEN [exc |-> "JSONPParseError", found |-> FALSE, json_str |-> <<>>]
       ELSE [exc |-> IF json_ok THEN "" ELSE "JSONPParseError",
             found |-> TRUE,
             json_str |-> SubSeq(response_text, start_idx, end_idx)]

\* What the listing host does with one attempt of fetch_report_list:
\*   "timeout", "connect"  the request fails (httpx.RequestError)
\*   "status"              the answer is not 2xx (raise_for_status)
\*   "ok"                  2xx with an envelope that holds JSON
\*   "no_brace"            2xx with a text without an envelope
\*   "bad_json"            2xx with an envelope that json.loads rejects
NetworkFailures == {"timeout", "connect", "status"}

ParseFailures == {"no_brace", "bad_json"}

FetchAnswers == NetworkFailures \cup ParseFailures \cup {"ok"}

\* One execution of the body of fetch_report_list: the exception that leaves it.
fetch_attempt(r) ==
    IF r \in NetworkFailures THEN "APIRequestError"
    ELSE LET response_text == IF r = "no_brace" THEN <<"x", "x">>
                              ELSE <<"x", "{", "x", "}", "x">>
         IN parse_jsonp_response(response_text, r = "ok").exc

\* tenacity around fetch_report_list: stop_after_attempt(MAX_RETRIES), every
\* exception is retried (no retry= condition), RetryError at the end (no reraise).
RECURSIVE retry_fetch(_, _)
retry_fetch(answers, k) ==
    LET exc == fetch_attempt(answers[k]) IN
    IF exc = "" THEN [exc |-> "", attempts |-> k]
    ELSE IF k >= MAX_RETRIES THEN [exc |-> "RetryError", attempts |-> k]
    ELSE retry_fetch(answers, k + 1)

fetch_report_list(answers) == retry_fetch(answers, 1)

InitClient ==
    /\ InitProgram
    /\ reply = <<>>
    /\ offered = <<>>
    /\ parsed = NoParse
    /\ call \in {[op |-> "none", response_text |-> t] : t \in ResponseTexts}
           \cup {[op |-> "none", answers |-> a] : a \in [1..MAX_RETRIES -> FetchAnswers]}
    /\ ret = NoUnit
    /\ lsn = NoUnit
    /\ chat = <<>>

ParseJsonp ==
    /\ call.op = "none"
    /\ "response_text" \in DOMAIN call
    /\ call' = [call EXCEPT !.op = "_parse_jsonp_response"]
    /\ \E json_ok \in BOOLEAN : ret' = parse_jsonp_response(call.response_text, json_ok)
    /\ UNCHANGED <<programVars, replyVars, lsn, chat>>

FetchReportList ==
    /\ call.op = "none"
    /\ "answers" \in DOMAIN call
    /\ call' = [call EXCEPT !.op = "fetch_report_list"]
    /\ ret' = fetch_report_list(call.answers)
    /\ UNCHANGED <<programVars, replyVars, lsn, chat>>

NextClient ==
    \/ ParseJsonp
    \/ FetchReportList

SpecClient == InitClient /\ [][NextClient]_vars

---------------------------------------------------------------------------
(* timed_listener.py: the wait loop of listen_and_process on its own (lines     *)
(* 216-343), entered with the values the statements before it bind.  Times are  *)
(* seconds.  The reports of a cycle are held, and the reviewer writes into the  *)
(* chat while the listener sleeps.  A message_id is the position of the message *)
(* in the chat; last_message_id = 0 stands for None.  lsn also counts the calls  *)
(* of move_to_target (resolves), the exceptions caught (errors) and the answered *)
(* requests for the latest message (reads).                                      *)

CHECK_INTERVAL == 300
ERROR_SLEEP == 60
DEFAULT_TIMEOUT_MINUTES == 15

MaxMessages == 2
MaxDelay == 1

\* The values of timeout_minutes the listener is started with.
TimeoutMinutes == {1, 5, DEFAULT_TIMEOUT_MINUTES}

\* The chat when the listener starts: empty, or holding the reviewer's reply to an
\* earlier cycle, with or without a later message of the bot.
InitialChats ==
    LET old    == [sender |-> "user", text |-> <<"1">>, at |-> 0 - 1]
        notice == [sender |-> "bot", text |-> <<"x">>, at |-> 0 - 1]
    IN {<<>>, <<old>>, <<old, notice>>}

\* The reports of the cycle, completed and held.
ListenTable ==
    <<[infocode |-> "a", report_title |-> "", pdf_size |-> 0, attach_type |-> "0",
       pdf_path |-> <<PDF_SAVE_DIR, "a">>, download_status |-> "completed",
       error_message |-> "", create_time |-> 0, update_time |-> 0],
      [infocode |-> "b", report_title |-> "", pdf_size |-> 0, attach_type |-> "0",
       pdf_path |-> <<PDF_SAVE_DIR, "b">>, download_status |-> "completed",
       error_message |-> "", create_time |-> 0, update_time |-> 0]>>

Min(x, y) == IF x <= y THEN x ELSE y

InitListen ==
    /\ now = 0
    /\ db = ListenTable
    /\ holding = [i \in Ids |-> 1]
    /\ target = [i \in Ids |-> 0]
    /\ saveDirExists = TRUE
    /\ pc = "idle"
    /\ mode = "manual"
    /\ cycle = 1
    /\ pageNo = 0
    /\ nAll = 0
    /\ page = <<>>
    /\ idx = 0
    /\ log = <<>>
    /\ last = NoCall
    /\ newReports = <<>>
    /\ res = NoRes
    /\ listener = "none"
    /\ sent = "failed"
    /\ crawlEnd = ""
    /\ reply = <<>>
    /\ offered = <<>>
    /\ parsed = NoParse
    /\ call = NoUnit
    /\ ret = NoUnit
    /\ chat \in InitialChats
    /\ lsn \in {[pc              |-> "sleep",
                 clock           |-> delay,
                 start_time      |-> 0,
                 timeout_seconds |-> timeout_minutes * 60,
                 remaining_time  |-> timeout_minutes * 60,
                 last_check_time |-> delay,
                 last_message_id |-> 0,
                 old             |-> Len(chat),
                 processed       |-> <<>>,
                 resolves        |-> 0,
                 errors          |-> 0,
                 reads           |-> 0,
                 ended           |-> "",
                 signal          |-> ""] :
                    timeout_minutes \in TimeoutMinutes, delay \in 0..MaxDelay}

ListenFrame ==
    UNCHANGED <<now, db, saveDirExists, pc, mode, cycle, pageNo, nAll, page, idx, log,
                last, newReports, listener, sent, crawlEnd, reply, offered, parsed,
                call, ret>>

\* The reviewer writes a message while the listener waits.
UserPosts ==
    /\ lsn.pc = "sleep"
    /\ lsn.remaining_time > 0
    /\ lsn.clock - lsn.start_time < lsn.timeout_seconds
    /\ Len(chat) - lsn.old < MaxMessages
    /\ \E text \in {<<"1">>, <<"x">>} :
          chat' = Append(chat, [sender |-> "user", text |-> text,
                                at |-> lsn.clock - lsn.start_time])
    /\ UNCHANGED <<lsn, holding, target, res>>
    /\ ListenFrame

\* A sleep that returns at once.
ListenerSleep_returns_at_once ==
    /\ lsn.pc = "sleep"
    /\ lsn.remaining_time > 0
    /\ lsn' = [lsn EXCEPT !.pc = "woke"]
    /\ UNCHANGED <<chat, holding, target, res>>
    /\ ListenFrame

\* await asyncio.sleep(min(check_interval, remaining_time))
ListenerSleep ==
    /\ lsn.pc = "sleep"
    /\ lsn.remaining_time > 0
    /\ lsn' = [lsn EXCEPT !.clock = @ + Min(CHECK_INTERVAL, lsn.remaining_time),
                          !.pc = "woke"]
    /\ UNCHANGED <<chat, holding, target, res>>
    /\ ListenFrame

\* The rest of the loop body after the sleep: remaining_time is computed, the
\* token is refreshed, and when check_interval has passed since last_check_time
\* the latest message of the chat is read.  A new message of the reviewer that
\* parse_user_selection can read goes to process_and_notify (the query, the call of
\* move_selected_pdfs, the confirmation message), and the listener returns.  An
\* exception (of the token refresh, of the request for the messages, of
\* move_to_target, of the confirmation message) is caught; the loop goes on after
\* asyncio.sleep(60), without the assignment to last_message_id.
ListenerPoll ==
    /\ lsn.pc = "woke"
    /\ LET woke == [lsn EXCEPT
                      !.remaining_time = lsn.timeout_seconds - (lsn.clock - lsn.start_time)]
           polled == [woke EXCEPT !.last_check_time = lsn.clock]
           caught(l) == [l EXCEPT !.clock = @ + ERROR_SLEEP, !.errors = @ + 1,
                                  !.pc = "sleep"]
           msg_id == Len(chat)
       IN \E refresh_raises \in BOOLEAN :
          IF refresh_raises
          THEN /\ lsn' = caught(woke)
               /\ UNCHANGED <<holding, target, res>>
          ELSE IF lsn.clock - lsn.last_check_time < CHECK_INTERVAL
          THEN /\ lsn' = [woke EXCEPT !.pc = "sleep"]
               /\ UNCHANGED <<holding, target, res>>
          ELSE \E raises \in BOOLEAN :
             IF raises
             THEN /\ lsn' = caught(polled)
                  /\ UNCHANGED <<holding, target, res>>
             ELSE IF chat = <<>>
             THEN /\ lsn' = [polled EXCEPT !.reads = @ + 1, !.pc = "sleep"]
                  /\ UNCHANGED <<holding, target, res>>
             ELSE \E selection \in {parse_user_selection(chat[msg_id].text)} :
             IF /\ msg_id # polled.last_message_id
                /\ chat[msg_id].sender = "user"
                /\ selection.kind # "None"
             THEN \E reports \in recent_completed(db, now, 1),
                     env \in FsEnvs({{}, {"a"}}), notice_raises \in BOOLEAN :
                     /\ Resolve("listener_reply",
                                Range(listener_selected_infocodes(selection, reports)),
                                env)
                     /\ LET called == [polled EXCEPT !.processed = Append(@, msg_id),
                                                     !.resolves = @ + 1,
                                                     !.reads = @ + 1]
                        IN lsn' = IF res'.raised \/ notice_raises
                                  THEN caught(called)
                                  ELSE [called EXCEPT !.pc = "done", !.ended = "reply"]
             ELSE /\ lsn' = [polled EXCEPT !.last_message_id = msg_id,
                                           !.reads = @ + 1, !.pc = "sleep"]
                  /\ UNCHANGED <<holding, target, res>>
    /\ UNCHANGED chat
    /\ ListenFrame

\* The loop condition fails: the statements after the loop, move_to_target([]).
ListenerTimeout ==
    /\ lsn.pc = "sleep"
    /\ lsn.remaining_time <= 0
    /\ \E env \in FsEnvs({{}, {"a"}}) : Resolve("listener_timeout", TimeoutSelection, env)
    /\ lsn' = [lsn EXCEPT !.pc = "done", !.ended = "timeout", !.resolves = @ + 1]
    /\ UNCHANGED chat
    /\ ListenFrame

\* The process is told to stop while the loop waits in asyncio.sleep.  What reaches
\* the coroutine depends on the interpreter and on the signal: KeyboardInterrupt
\* raised in the try block (caught: break, then the statements after the loop),
\* CancelledError when asyncio.run cancels the task on SIGINT (caught by neither
\* except clause), or nothing at all on SIGTERM.
ListenerShutdown ==
    /\ lsn.pc = "sleep"
    /\ lsn.remaining_time > 0
    /\ \E signal \in {"KeyboardInterrupt", "CancelledError", "SIGTERM"} :
          IF signal = "KeyboardInterrupt"
          THEN /\ \E env \in FsEnvs({{}}) :
                     Resolve("listener_timeout", TimeoutSelection, env)
               /\ lsn' = [lsn EXCEPT !.pc = "done", !.ended = "timeout",
                                     !.signal = signal, !.resolves = @ + 1]
          ELSE /\ lsn' = [lsn EXCEPT !.pc = "done", !.ended = signal, !.signal = signal]
               /\ UNCHANGED <<holding, target, res>>
    /\ UNCHANGED chat
    /\ ListenFrame

NextListen ==
    \/ UserPosts
    \/ ListenerSleep
    \/ ListenerPoll
    \/ ListenerTimeout
    \/ ListenerShutdown

SpecListen == InitListen /\ [][NextListen]_vars

\* The event loop runs the coroutine: a sleep that is due returns, and the
\* statements after it are executed.  Nothing obliges the reviewer to write or the
\* process to be stopped.
SpecListenFair ==
    /\ SpecListen
    /\ WF_vars(ListenerSleep)
    /\ WF_vars(ListenerPoll)
    /\ WF_vars(ListenerTimeout)

---------------------------------------------------------------------------
(* Properties of the retention step and of the approval protocol (Spec)      *)

\* C1  Retention totality: once a call of move_to_target has ended, no file that
\* was in the holding directory when it started is still there (each is in the
\* target directory or nowhere), for every selection and also when a move or a
\* delete of some file fails.
C1_RetentionTotality ==
    res.via # "none" =>
        \A i \in Ids : res.pre_h[i] # 0 => holding[i] = 0

\* C2  No retention without approval: a file enters the target directory only when
\* a reviewer reply of the cycle selected it, and a cycle that ended without a
\* reviewer selection (send failure, no reply, timeout) has deleted its held files.
C2_NoRetentionWithoutApproval ==
    /\ \A i \in Ids :
          (res.via # "none" /\ target[i] # res.pre_t[i]) =>
              (res.via = "cli" /\ i \in res.sel)
    /\ (pc = "idle" /\ cycle > 0 /\ res.via # "cli") => HeldIds(holding) = {}

C4_TimeoutEquivalence ==
    res.via = "sched_timeout" =>
        /\ \E all_files \in Perms(HeldIds(res.pre_h)),
              failing \in SUBSET HeldIds(res.pre_h) :
              LET m == move_to_target(res.pre_h, res.pre_t, saveDirExists, {},
                                      all_files, failing)
              IN /\ holding = m.holding
                 /\ target = m.target
                 /\ res.raised = m.raised
                 /\ res.undeleted = m.undeleted
        /\ target = res.pre_t
        /\ (~res.raised /\ res.undeleted = {}) => HeldIds(holding) = {}

\* A timed-out wait with files held and files retained earlier: the held files are
\* gone and the target directory is as it was.
C4_Witness ==
    /\ res.via = "sched_timeout"
    /\ HeldIds(res.pre_h) # {}
    /\ HeldIds(res.pre_t) # {}
    /\ HeldIds(holding) = {}
    /\ target = res.pre_t

---------------------------------------------------------------------------
(* Properties of the report store and of the download (SpecStore)            *)

\* C5  Status/path invariant: every stored report has a non-empty pdf_path if and
\* only if its download_status is completed.
C5_StatusPathInvariant ==
    \A i \in DOMAIN db :
        (db[i].pdf_path # NoPath) <=> (db[i].download_status = "completed")

\* C6  Re-observing a Completed report: when _process_report meets a report whose
\* stored status is completed, it issues no download and the row stays completed
\* with its path.
C6_ReobserveCompleted ==
    last.prior = "completed" =>
        /\ last.dl = "none"
        /\ RowOf(db, last.rec.infoCode).download_status = "completed"
        /\ RowOf(db, last.rec.infoCode).pdf_path # NoPath

\* C7  NoPdf invariant: a stored report has status no_pdf if and only if its
\* attachment flag says there is no attachment, and no download is issued for a
\* report observed without an attachment.
C7_NoPdfInvariant ==
    /\ \A i \in DOMAIN db :
          (db[i].download_status = "no_pdf") <=> (db[i].attach_type # "0")
    /\ last.rec.attachType # "0" => last.dl = "none"

\* C8  Upsert idempotence: however often a report is stored, the table holds at
\* most one row of an infocode, exactly one for a report that has been stored, and
\* no step removes a row or lowers its update_time.
C8_RowsKept ==
    \A i \in DOMAIN db :
        /\ i \in DOMAIN db'
        /\ db'[i].infocode = db[i].infocode
        /\ db'[i].update_time >= db[i].update_time

C8_UpsertIdempotence ==
    /\ [](/\ \A id \in Ids : Cardinality(RowsOf(db, id)) <= 1
          /\ last.written => Cardinality(RowsOf(db, last.rec.infoCode)) = 1)
    /\ [][C8_RowsKept]_vars

\* The same no_pdf item stored again, on a later day.
C8_Witness ==
    /\ last.written
    /\ last.prior = "no_pdf"
    /\ last.rec.attachType = "1"
    /\ Cardinality(RowsOf(db, last.rec.infoCode)) = 1
    /\ RowOf(db, last.rec.infoCode).update_time
          > RowOf(db, last.rec.infoCode).create_time

\* C9  Not-found is terminal: when the host answers a GET of download_pdf with 404,
\* that attempt sent one GET, no attempt follows it, the call returns None, and the
\* report is stored as failed with a non-empty error_message.
C9_NotFoundTerminal ==
    last.saw404 =>
        /\ last.gets404 = 1
        /\ last.after404 = 0
        /\ last.dl = "None"
        /\ last.written
        /\ RowOf(db, last.rec.infoCode).download_status = "failed"
        /\ RowOf(db, last.rec.infoCode).error_message # ""

C9_Witness ==
    /\ last.saw404
    /\ last.dl = "None"
    /\ RowOf(db, last.rec.infoCode).download_status = "failed"

\* The first cycle has ended after one page of two records: one with an attachment
\* that was downloaded and one without an attachment.
C10_Case ==
    /\ cycle = 1
    /\ pc = "crawled"
    /\ Len(log) = 2
    /\ \A k \in 1..2 : log[k].page_no = 1
    /\ \E k \in 1..2 :
          /\ log[k].rec.attachType = "0" /\ log[k].dl = "bytes"
          /\ log[3 - k].rec.attachType # "0" /\ log[3 - k].dl = "none"

\* C10  First-observation outcome: from an empty table, after a cycle of one page
\* with one report whose attachment downloads and one report without an attachment,
\* the table holds exactly two rows, in the order of the page: the first completed
\* with the path of its file in the holding directory, the second no_pdf with an
\* empty path.
C10_FirstObservation ==
    C10_Case =>
        /\ Len(db) = 2
        /\ \A k \in 1..2 :
              /\ db[k].infocode = log[k].rec.infoCode
              /\ IF log[k].rec.attachType = "0"
                 THEN /\ db[k].download_status = "completed"
                      /\ db[k].pdf_path = <<PDF_SAVE_DIR, db[k].infocode>>
                      /\ holding[db[k].infocode] # 0
                 ELSE /\ db[k].download_status = "no_pdf"
                      /\ db[k].pdf_path = NoPath
                      /\ holding[db[k].infocode] = 0

C10_Witness ==
    /\ C10_Case
    /\ Len(db) = 2
    /\ log[1].rec.attachType = "0"
    /\ db[1].download_status = "completed"
    /\ db[2].download_status = "no_pdf"

---------------------------------------------------------------------------
(* Properties of the reply functions (SpecReply)                              *)

\* The functions that turn a reply into a selection.
ReplyReaders == {"process_user_selection", "parse_user_selection", "process_selection"}

\* The keep-all tokens.
KeepAllTokens == {T_all, T_quanbu_baoliu, T_quanbu}

\* The reply is one of the keywords any of the functions knows.
IsKeyword(text) ==
    lower(strip(text)) \in KeepAllTokens \cup
        {T_delete, T_delete_all, T_all_delete, T_quanbu_shanchu, T_cancel, T_quxiao}

\* The positions the grammar reads out of a reply against n offered reports: the
\* comma-separated tokens (either comma) that are integers within 1..n.
GrammarIndices(text, n) ==
    LET tokens == split(replace_fw_comma(lower(strip(text))))
    IN {int(strip(tokens[k])) : k \in {j \in DOMAIN tokens :
                                        /\ isdigit(strip(tokens[j]))
                                        /\ 1 <= int(strip(tokens[j]))
                                        /\ int(strip(tokens[j])) <= n}}

\* The reply holds a comma-separated token that is a positive integer.
HasPositiveInteger(text) ==
    LET tokens == split(replace_fw_comma(lower(strip(text))))
    IN \E j \in DOMAIN tokens :
          isdigit(strip(tokens[j])) /\ 1 <= int(strip(tokens[j]))

\* C11  Index selection grammar: for a reply that is not a keyword, the selection a
\* reply function returns names exactly the reports at the positions the
\* comma-separated integer tokens within 1..n give, and names no report twice.
C11_IndexGrammar ==
    (parsed.by \in ReplyReaders /\ ~IsKeyword(reply)) =>
        /\ Range(parsed.selected) =
              {offered[i] : i \in GrammarIndices(reply, Len(offered))}
        /\ \A j, k \in DOMAIN parsed.selected :
              j # k => parsed.selected[j] # parsed.selected[k]

\* C12  Keep-all: for a reply that is a keep-all token, in any case and with
\* surrounding blanks, the selection is the full set of the offered reports.
C12_KeepAll ==
    (parsed.by \in ReplyReaders /\ lower(strip(reply)) \in KeepAllTokens) =>
        /\ ~parsed.none
        /\ Range(parsed.selected) = Range(offered)

\* C13  Unparseable reply: a reply that is no keyword and holds no token that is a
\* positive integer yields the empty selection (a selection, so that it is resolved
\* with every held file deleted), not an error or no selection.
C13_UnparseableIsEmpty ==
    (/\ parsed.by \in ReplyReaders
     /\ ~IsKeyword(reply)
     /\ ~HasPositiveInteger(reply)) =>
        /\ ~parsed.none
        /\ parsed.selected = <<>>

\* C15  Index consistency: the sent card shows every offered report at its position
\* in the offered list, and a reply of one index within the list selects the
\* report shown at that position.
C15_IndexConsistency ==
    /\ parsed.by = "send_report_list" =>
          \A i \in DOMAIN offered :
              i \in DOMAIN parsed.selected /\ parsed.selected[i] = offered[i]
    /\ \A i \in DOMAIN offered :
          (parsed.by \in ReplyReaders /\ Len(reply) = 1 /\ isdigit(reply)
              /\ int(reply) = i) => parsed.selected = <<offered[i]>>

---------------------------------------------------------------------------
(* Properties of the approval wait and of the failure paths                   *)

\* C14  First qualifying reply decides: a run of the listener that found its chat
\* ends by resolving the selection of the first reply it saw, or, when it saw
\* none before the timeout, by the timeout resolution.
C14_FirstReplyDecides ==
    listener \notin {"none", "no_chat_id"} =>
        res.via \in {"listener_reply", "listener_timeout"}

\* C16  Send failure: once the sending of the report list has failed, the cycle
\* has called move_to_target with the empty selection at once: it has neither
\* left the held files unresolved nor waited for the approval window to resolve
\* them.
C16_SendFailureResolves ==
    sent = "failed" => res.via \notin {"none", "sched_timeout"}

\* C17  Attachment failure isolation: when a download has exhausted its retries,
\* its report is stored as failed with an error message and the crawl loop goes on
\* with the remaining records and pages.
C17_AttachmentFailureIsolated ==
    last.dl = "RetryError" =>
        /\ last.written
        /\ StatusOf(db, last.rec.infoCode) = "failed"
        /\ crawlEnd # "exception"

\* The step in which fetch_report_list raises changes no stored record and no file.
C18_FailingFetchKeepsRecords ==
    (crawlEnd' = "fetch_error" /\ crawlEnd # "fetch_error") =>
        /\ pc = "fetch"
        /\ db' = db
        /\ holding' = holding
        /\ log' = log

\* After the failed fetch the records stay as they are, no page is fetched, and the
\* cycle goes on with the query of the recently completed reports.
C18_CrawlEndsAfterFailure ==
    crawlEnd = "fetch_error" =>
        /\ db' = db
        /\ pc' \notin {"fetch", "process"}
        /\ (pc' # pc => /\ pc' = "notify"
                        /\ newReports' \in recent_completed(db, now, DEFAULT_DAYS))

\* C18  Page failure isolation: when fetching page k fails, no page after k is
\* fetched in the cycle, the records stored from the pages before k are unchanged,
\* and the cycle continues to the query of the recently completed reports.
C18_PageFailureIsolation ==
    /\ [](crawlEnd = "fetch_error" =>
             pc = "crawled" /\ recent_completed(db, now, DEFAULT_DAYS) # {})
    /\ [][C18_FailingFetchKeepsRecords]_vars
    /\ [][C18_CrawlEndsAfterFailure]_vars

\* The fetch of page 2 failed after the records of page 1 were stored.
C18_Witness ==
    /\ crawlEnd = "fetch_error"
    /\ pageNo = 2
    /\ Len(log) = 2
    /\ Len(db) = 2

\* C19  Crawl termination: the loop of a cycle ends at the first page without
\* records or after the maximum number of pages, max_notes / PAGE_SIZE = 5: no
\* page beyond that number is fetched, however few records the pages hold.
C19_CrawlPageLimit ==
    pc = "process" => pageNo <= max_notes \div PAGE_SIZE

\* C20  Resolver error isolation: a call of move_to_target on an existing holding
\* directory returns, whatever file operation fails, and has dealt with every held
\* file: each is gone from the holding directory or reported as not deleted or not
\* moved, and none is left untouched behind a failure.
C20_ResolverErrorIsolation ==
    (res.via # "none" /\ saveDirExists) =>
        /\ ~res.raised
        /\ \A i \in HeldIds(res.pre_h) : holding[i] = 0 \/ i \in res.undeleted

---------------------------------------------------------------------------
(* Properties of the functions of the report table (SpecTable)                *)

\* The keys of a content item that name a column of the table.
SuppliedColumns(item) ==
    DOMAIN item \cap {"report_title", "pdf_size", "attach_type", "pdf_path",
                      "download_status", "error_message"}

\* C21  Upsert merges supplied fields: after store_content for a stored infocode
\* the row holds every field the item supplied (title, size, status, path,
\* message) and update_time is the time of the call; for an unknown infocode one
\* row is added with the supplied status, pending when none is supplied, and
\* create_time = update_time = the time of the call.
C21_UpsertMergesSupplied ==
    call.op = "store_content" =>
        LET item == call.item
            row  == RowOf(db, item.infocode)
        IN IF report_is_exist(call.table, item.infocode)
           THEN /\ \A f \in SuppliedColumns(item) : row[f] = item[f]
                /\ row.update_time = now
           ELSE /\ Len(db) = Len(call.table) + 1
                /\ Cardinality(RowsOf(db, item.infocode)) = 1
                /\ row.download_status = Get(item, "download_status", "pending")
                /\ row.create_time = now
                /\ row.update_time = now

\* C22  Partial-update frame: store_content for a stored infocode and
\* update_pdf_status keep the number of rows, leave every row of another infocode
\* as it was, and change in the row of the infocode no field the call did not
\* supply, except update_time; infocode and create_time stay.
C22_PartialUpdateFrame ==
    (/\ call.op \in {"store_content", "update_pdf_status"}
     /\ report_is_exist(call.table, call.item.infocode)) =>
        /\ Len(db) = Len(call.table)
        /\ \A i \in DOMAIN db :
              IF call.table[i].infocode # call.item.infocode
              THEN db[i] = call.table[i]
              ELSE /\ db[i].infocode = call.table[i].infocode
                   /\ db[i].create_time = call.table[i].create_time
                   /\ \A f \in DOMAIN db[i] \ {"update_time"} :
                         f \notin DOMAIN call.item => db[i][f] = call.table[i][f]

\* An update of one of two stored rows that supplies a status and a message only,
\* for a row that holds a path and a title.
C22_Witness ==
    /\ call.op = "store_content"
    /\ Len(call.table) = 2
    /\ DOMAIN call.item = {"infocode", "download_status", "error_message"}
    /\ report_is_exist(call.table, call.item.infocode)
    /\ RowOf(call.table, call.item.infocode).pdf_path # NoPath
    /\ RowOf(call.table, call.item.infocode).report_title # ""
    /\ RowOf(db, call.item.infocode).download_status = "failed"
    /\ RowOf(db, call.item.infocode).update_time
          > RowOf(call.table, call.item.infocode).update_time

\* C23  recentCompleted: get_new_reports_for_feishu(days) returns each stored
\* report that is completed and was created within the last `days` days, once,
\* and no other report, by descending create_time.
C23_RecentCompleted ==
    call.op = "get_new_reports_for_feishu" =>
        LET recent == {i \in DOMAIN db : /\ db[i].download_status = "completed"
                                         /\ now - db[i].create_time <= call.days}
        IN /\ Range(ret.reports) = {db[i].infocode : i \in recent}
           /\ Len(ret.reports) = Cardinality(recent)
           /\ \A j, k \in DOMAIN ret.reports :
                 j < k => RowOf(db, ret.reports[j]).create_time
                             >= RowOf(db, ret.reports[k]).create_time

\* The query over DEFAULT_DAYS returns the completed report created DEFAULT_DAYS
\* ago and leaves out the completed report created before that.
C23_Witness ==
    /\ call.op = "get_new_reports_for_feishu"
    /\ call.days = DEFAULT_DAYS
    /\ Len(db) = 2
    /\ \A i \in DOMAIN db : db[i].download_status = "completed"
    /\ Len(ret.reports) = 1
    /\ RowOf(db, ret.reports[1]).create_time = now - DEFAULT_DAYS

---------------------------------------------------------------------------
(* The download lifecycle (SpecStore)                                         *)

\* The moves of the stored status: pending at the first sight of the infocode,
\* downloading when the fetch begins, then one of the three final statuses (no_pdf
\* also straight from pending, as no fetch is made then).
LifecycleMoves ==
    {<<"absent", "pending">>, <<"pending", "downloading">>, <<"pending", "no_pdf">>,
     <<"downloading", "completed">>, <<"downloading", "failed">>,
     <<"downloading", "no_pdf">>}

C24_StatusMoves ==
    \A i \in Ids :
        StatusOf(db, i) # StatusOf(db', i) =>
            <<StatusOf(db, i), StatusOf(db', i)>> \in LifecycleMoves

\* C24  Download lifecycle: the stored status of a report is pending when its
\* infocode is first seen, downloading while its attachment is fetched, and
\* completed, failed or no_pdf once the attempt has ended; it never moves along
\* another path.
C24_DownloadLifecycle == [][C24_StatusMoves]_vars

---------------------------------------------------------------------------
(* The calls of move_to_target of a cycle (Spec)                              *)

---------------------------------------------------------------------------
(* Properties of the listing client (SpecClient)                              *)

\* C29  Bounded retry of the listing fetch: one call of fetch_report_list makes at
\* most MAX_RETRIES attempts, returns at the first attempt that succeeds, repeats
\* an attempt only after a network failure, gives up with the parse error after
\* one attempt when the envelope of the first answer does not parse, and raises
\* when the attempts are used up.
C29_BoundedFetchRetry ==
    call.op = "fetch_report_list" =>
        /\ ret.attempts <= MAX_RETRIES
        /\ ret.exc = "" => /\ call.answers[ret.attempts] = "ok"
                           /\ \A k \in 1..(ret.attempts - 1) : call.answers[k] # "ok"
        /\ \A k \in 1..(ret.attempts - 1) : call.answers[k] \in NetworkFailures
        /\ call.answers[1] \in ParseFailures =>
              (ret.attempts = 1 /\ ret.exc = "JSONPParseError")
        /\ (\A k \in 1..MAX_RETRIES : call.answers[k] \in NetworkFailures) =>
              (ret.attempts = MAX_RETRIES /\ ret.exc # "")

\* The number of "{" less the number of "}" in text from index s to index j.
BraceBalance(text, s, j) ==
    Cardinality({i \in s..j : text[i] = "{"}) - Cardinality({i \in s..j : text[i] = "}"})

---------------------------------------------------------------------------
(* Properties of the wait loop of the listener (SpecListen)                   *)

\* The messages the reviewer wrote after the listener started that
\* parse_user_selection can read.
QualifyingReplies ==
    {i \in (lsn.old + 1)..Len(chat) :
        /\ chat[i].sender = "user"
        /\ parse_user_selection(chat[i].text).kind # "None"}

---------------------------------------------------------------------------
(* Records without an identifier (SpecSkip)                                   *)

\* The call of _process_report for a record without an infoCode changes no stored
\* row and no file, does not end the crawl loop, and the for loop goes on with the
\* next record of the page.
C38_SkipStep ==
    (pc = "process" /\ log' # log /\ page[idx].infoCode = "") =>
        /\ db' = db
        /\ holding' = holding
        /\ saveDirExists' = saveDirExists
        /\ crawlEnd' # "exception"
        /\ idx < Len(page) => (pc' = "process" /\ idx' = idx + 1 /\ page' = page)

\* C38  A listing record without an identifier is skipped: its call of
\* _process_report writes nothing to the store and requests no download, and the
\* records after it on the page are processed as they are without it.
C38_UnidentifiedRecordSkipped ==
    /\ [](/\ last.rec.infoCode = "" => (~last.written /\ last.dl = "none")
          /\ \A k \in DOMAIN log : log[k].rec.infoCode = "" => log[k].dl = "none"
          /\ \A i \in DOMAIN db : db[i].infocode # "")
    /\ [][C38_SkipStep]_vars

\* A page of a record without infoCode followed by a report with an attachment:
\* the first left no row, the second was downloaded and stored as completed.
C38_Witness ==
    /\ cycle = 1
    /\ Len(log) = 2
    /\ log[1].rec.infoCode = ""
    /\ log[2].rec.infoCode = "a"
    /\ log[2].dl = "bytes"
    /\ Len(db) = 1
    /\ db[1].infocode = "a"
    /\ db[1].download_status = "completed"
    /\ holding["a"] # 0

---------------------------------------------------------------------------
(* The stored status between the calls of _process_report (SpecStore)         *)

TransientStatuses == {"pending", "downloading"}

\* C37  No transient status at rest: between the calls of _process_report, and so
\* after every cycle, no stored report is pending or downloading; a call that an
\* exception ended has written nothing, and the row of its report, when there is
\* one, holds the final status it had before.
C37_NoTransientStatusAtRest ==
    /\ \A i \in DOMAIN db : db[i].download_status \notin TransientStatuses
    /\ last.dl = "RetryError" =>
          /\ ~last.written
          /\ StatusOf(db, last.rec.infoCode) = last.prior
          /\ last.prior \notin TransientStatuses

\* The download of the second report of a page ended with an exception after the
\* first report was stored: one row, in a final status, and none for the second.
C37_Witness ==
    /\ last.dl = "RetryError"
    /\ crawlEnd = "exception"
    /\ Len(log) = 2
    /\ Len(db) = 1
    /\ db[1].infocode = log[1].rec.infoCode
    /\ db[1].download_status \in {"completed", "failed", "no_pdf"}
    /\ StatusOf(db, last.rec.infoCode) = "absent"

---------------------------------------------------------------------------
(* The stored paths and the files (Spec)                                      *)

\* The path names a file that exists.
FileExists(pdf_path) ==
    /\ pdf_path # NoPath
    /\ \/ pdf_path[1] = PDF_SAVE_DIR /\ holding[pdf_path[2]] # 0
       \/ pdf_path[1] = TARGET_PDF_DIR /\ target[pdf_path[2]] # 0

\* C35  Store/filesystem consistency: between the operations, also after
\* move_to_target has moved or deleted the held files, the pdf_path of every stored
\* report with status completed names an existing file.
C35_CompletedPathExists ==
    \A i \in DOMAIN db :
        db[i].download_status = "completed" => FileExists(db[i].pdf_path)

---------------------------------------------------------------------------
(* Properties of move_to_target (Spec)                                        *)

\* C33  Resolve is idempotent: a call of move_to_target that repeats the selection
\* of the call before it, with no download in between and no file operation
\* failing in either, changes no file of the holding and of the target directory
\* and returns the empty mapping.
C33_ResolveIdempotent ==
    res.again =>
        /\ ~res.raised
        /\ res.result = {}
        /\ holding = res.pre_h
        /\ target = res.pre_t

\* The reviewer's selection was resolved twice: the first call moved the selected
\* file to the target directory, the second found nothing to do.
C33_Witness ==
    /\ res.again
    /\ res.via = "cli"
    /\ res.sel # {}
    /\ \E i \in res.sel : target[i] # 0
    /\ HeldIds(holding) = {}
    /\ res.result = {}

\* C34  Resolve frame and result: move_to_target changes the file of an infocode in
\* the target directory only when the infocode is selected and a file of it was
\* held; a call that returns returns exactly the infocodes that are selected and
\* were held, and the file of each is then in the target directory (at
\* TARGET_PDF_DIR/<infocode>.pdf) and no longer held.
C34_ResolveFrameAndResult ==
    res.via # "none" =>
        /\ \A i \in Ids :
              target[i] # res.pre_t[i] => (i \in res.sel /\ res.pre_h[i] # 0)
        /\ ~res.raised =>
              /\ res.result = res.sel \cap HeldIds(res.pre_h)
              /\ \A i \in res.result : target[i] = res.pre_h[i] /\ holding[i] = 0

\* Both reports were selected while only one was held and the target directory
\* held a file of the other: the held one was moved and returned, the other file of
\* the target directory is as it was.
C34_Witness ==
    /\ res.via = "cli"
    /\ res.sel = Ids
    /\ \E i \in Ids :
          /\ res.pre_h[i] # 0
          /\ res.result = {i}
          /\ target[i] = res.pre_h[i]
          /\ \E j \in Ids \ {i} :
                /\ res.pre_h[j] = 0
                /\ res.pre_t[j] # 0
                /\ target[j] = res.pre_t[j]

\* C36  Resolve with nothing to resolve: a call of move_to_target that finds no
\* held file, because the holding directory is empty or was never created,
\* returns the empty mapping and does not raise.
C36_NothingToResolve ==
    (res.via # "none" /\ HeldIds(res.pre_h) = {}) =>
        /\ ~res.raised
        /\ res.result = {}

---------------------------------------------------------------------------
(* The three readers of a reply (SpecReply)                                   *)

\* C39  Parser agreement: whichever of process_user_selection,
\* parse_user_selection with the mapping of process_and_notify, and
\* process_selection read the reply, the set of infocodes to keep is the one each
\* of the three gives for the same reply and the same offered list.
C39_ParserAgreement ==
    parsed.by \in ReplyReaders =>
        LET selection == parse_user_selection(reply)
            bot == Range(process_user_selection(reply, offered))
            lis == IF selection.kind = "None" THEN {}
                   ELSE Range(listener_selected_infocodes(selection, offered))
            cli == cli_selection(reply, offered, TRUE).infocodes
        IN /\ Range(parsed.selected) = bot
           /\ bot = lis
           /\ lis = cli

---------------------------------------------------------------------------
(* The calls of move_to_target of a listener run, and the end of the wait     *)
(* (SpecListen, SpecListenFair)                                               *)

=============================================================================
